---- MODULE Spec2Model ----
(***************************************************************************)
(* Model of drumkit_generator.py: recursive discovery of audio files by    *)
(* extension (get_audio_files), assembly of one kit in a timestamped       *)
(* directory (create_drum_kit) and the kit loop of main.                   *)
(*                                                                         *)
(* Strings are sequences of one-character strings, so that lower(),        *)
(* strip('.'), os.path.splitext and the f"{i:02d}" format are computed     *)
(* character by character.  A path is a record [dir, name]: the sequence   *)
(* of directory names below the library root and the file's name.          *)
(*                                                                         *)
(* Environment assumptions: the wall clock never runs backwards;           *)
(* os.makedirs of the kit directory succeeds; a placement may fail for     *)
(* reasons outside the program (permissions, disk full, vanished source),  *)
(* which is the failure the try/except of create_drum_kit handles.  File   *)
(* contents are not modelled: an entry of a kit directory is a complete    *)
(* file, a file a failed copy left behind, or a link and its target.       *)
(***************************************************************************)
EXTENDS Integers, Sequences, FiniteSets, TLC

VARIABLES
    library,          \* the sample library on disk: a directory tree
    now,              \* wall clock, in whole seconds
    fs,               \* output folder: timestamp -> kit directory or NoDir
    pc,               \* position of the program
    caller,           \* "main" or "direct": who called create_drum_kit
    extensions,       \* main: extensions typed by the user
    max_files,        \* files per kit
    use_symlinks,     \* placement mode
    num_kits,         \* main: number of kits requested
    audio_files,      \* the discovered file list
    kit_num,          \* main: loop variable
    successful_kits,  \* main: success counter
    kit_dir,          \* create_drum_kit: timestamp naming the kit directory
    selected_files,   \* create_drum_kit: the draw
    i,                \* create_drum_kit: 1-based index of the file being placed
    result,           \* create_drum_kit: the returned value
    calls,            \* history: calls of create_drum_kit so far
    run_dirs,         \* history: kit_dir of each kit of the current run of main
    run_results,      \* history: value returned by each call of the current run
    attempts,         \* history: indices whose placement the current kit attempted
    placed,           \* history: entries the current kit placed, in order
    last_place        \* history: what the last placement attempt met and did

vars == <<library, now, fs, pc, caller, extensions, max_files, use_symlinks,
          num_kits, audio_files, kit_num, successful_kits, kit_dir,
          selected_files, i, result, calls, run_dirs, run_results, attempts,
          placed, last_place>>

----------------------------------------------------------------------------
(* Bounds of the model *)

\* last second of the wall clock
MaxClock == 2
\* calls of create_drum_kit in one behaviour
MaxCalls == 2
\* largest number of kits a run of main is asked for
MaxKits == 2
\* number of files in the wide library (kits with three-digit indices)
WideCount == 100
\* lists no longer than this have every draw enumerated
MaxEnum == 2

----------------------------------------------------------------------------
(* Strings *)

LowerChar(c) == CASE c = "W" -> "w" [] c = "M" -> "m" [] c = "K" -> "k" [] OTHER -> c

\* str.lower()
Lower(s) == [j \in 1..Len(s) |-> LowerChar(s[j])]

RECURSIVE LStripDots(_)
LStripDots(s) == IF s # <<>> /\ Head(s) = "." THEN LStripDots(Tail(s)) ELSE s

RECURSIVE RStripDots(_)
RStripDots(s) ==
    IF s # <<>> /\ s[Len(s)] = "." THEN RStripDots(SubSeq(s, 1, Len(s) - 1)) ELSE s

\* str.strip('.'): every leading and every trailing dot is removed
StripDots(s) == RStripDots(LStripDots(s))

\* str.rfind('.'), 1-based, 0 when there is no dot
LastDot(s) ==
    LET D == {j \in 1..Len(s) : s[j] = "."}
    IN  IF D = {} THEN 0 ELSE CHOOSE j \in D : \A k \in D : k <= j

\* os.path.splitext(file)[1] for a name without separators: the text from the
\* last dot on, provided some character before that dot is not a dot
SplitExt(s) ==
    LET d == LastDot(s)
    IN  IF d > 0 /\ \E j \in 1..(d - 1) : s[j] # "."
        THEN SubSeq(s, d, Len(s))
        ELSE <<>>

DigitChars == <<"0", "1", "2", "3", "4", "5", "6", "7", "8", "9">>

RECURSIVE Decimal(_)
Decimal(n) ==
    IF n < 10 THEN <<DigitChars[n + 1]>>
    ELSE Decimal(n \div 10) \o <<DigitChars[(n % 10) + 1]>>

\* variant of Format02d: the index written without padding, f"{i}"
Format02d_unpadded(n) == Decimal(n)

\* f"{i:02d}": decimal digits, zero-padded on the left to a width of at least 2
Format02d(n) == IF n < 10 THEN <<"0">> \o Decimal(n) ELSE Decimal(n)

----------------------------------------------------------------------------
(* Paths and directory trees *)

\* os.path.join(root, file)
Path(root, file) == [dir |-> root, name |-> file]

\* os.path.basename(source_file)
Basename(p) == p.name

Dir(fileNames, subdirs) == [files |-> fileNames, dirs |-> subdirs]

Sub(dirName, node) == [name |-> dirName, node |-> node]

RECURSIVE Flatten(_)
Flatten(ss) == IF ss = <<>> THEN <<>> ELSE Head(ss) \o Flatten(Tail(ss))

\* os.walk(input_dir), top-down: one (root, files) pair for the directory itself,
\* then the pairs of each subdirectory in listing order
RECURSIVE Walk(_, _)
Walk(root, node) ==
    <<[root |-> root, files |-> node.files]>>
    \o Flatten([d \in 1..Len(node.dirs) |->
                  Walk(Append(root, node.dirs[d].name), node.dirs[d].node)])

\* variant of Matches: the file's extension compared without .lower()
Matches_cased(file, exts) ==
    LET file_ext == StripDots(SplitExt(file))
    IN  \E e \in 1..Len(exts) : exts[e] = file_ext

\* lines 32-34: whether a file of the walk is kept
Matches(file, exts) ==
    LET file_ext == StripDots(Lower(SplitExt(file)))
    IN  \E e \in 1..Len(exts) : exts[e] = file_ext

\* the inner loop of get_audio_files over the files of one directory: the paths
\* of the files kept, in listing order
ScanFiles(root, files, exts) ==
    LET kept == SelectSeq(files, LAMBDA file : Matches(file, exts))
    IN  [j \in 1..Len(kept) |-> Path(root, kept[j])]

get_audio_files(input_dir, exts) ==
    LET normalized == [e \in 1..Len(exts) |-> StripDots(Lower(exts[e]))]
        walk == Walk(<<>>, input_dir)
    IN  Flatten([w \in 1..Len(walk) |->
                   ScanFiles(walk[w].root, walk[w].files, normalized)])

----------------------------------------------------------------------------
(* The libraries the model runs over *)

kw == <<"k", ".", "w">>

\* root: k.w n.m   a/: nothing   a/b/: k.w
SmallLibrary ==
    Dir(<<kw, <<"n", ".", "m">>>>,
        <<Sub("a", Dir(<<>>, <<Sub("b", Dir(<<kw>>, <<>>))>>))>>)

\* WideCount files k1.w, k2.w, ... in the root
WideLibrary ==
    Dir([j \in 1..WideCount |-> <<"k">> \o Decimal(j) \o <<".", "w">>], <<>>)

\* what the user may type as extensions: ".W" or "x"
ExtInputs == {<<<<".", "W">>>>, <<<<"x">>>>}

\* what the user may type as files per kit: one, two, or as many as the wide
\* library holds
FilesPerKit == {1, 2, WideCount}

----------------------------------------------------------------------------
(* The output folder *)

NoDir == [exists |-> FALSE, entries |-> {}]

\* os.makedirs(kit_dir, exist_ok=True)
makedirs(f, t) == IF f[t].exists THEN f ELSE [f EXCEPT ![t].exists = TRUE]

\* the entry of directory d under a name, as a set: empty when there is none
Lookup(d, name) == {e \in d.entries : e.name = name}

\* directory d with the entry under e.name created or replaced
WithEntry(d, e) ==
    [d EXCEPT !.entries = {x \in d.entries : x.name # e.name} \cup {e}]

\* an entry of a kit directory: a "file" (a complete copy), a "partial" file
\* (what a failed copy left) or a "link" to a target
File(name, kind) == [name |-> name, kind |-> kind]

Link(name, target) == [name |-> name, kind |-> "link", target |-> target]

----------------------------------------------------------------------------
(* create_drum_kit *)

Min(a, b) == IF a <= b THEN a ELSE b

Injective(s) == \A a, b \in DOMAIN s : a # b => s[a] # s[b]

\* random.sample draws positions without replacement.  Every order of every
\* subset is enumerated for lists of at most MaxEnum elements; for longer lists
\* the draws enumerated are the runs of n consecutive positions starting at one
\* of the first MaxEnum offsets (wrapping around)
SampleOrders(len, n) ==
    IF len <= MaxEnum
    THEN {s \in [1..n -> 1..len] : Injective(s)}
    ELSE {[j \in 1..n |-> ((r + j - 1) % len) + 1] : r \in 0..(MaxEnum - 1)}

\* variant of sample: a draw with replacement, as random.choices makes
sample_replacing(population, n) ==
    {[j \in 1..n |-> population[s[j]]] : s \in [1..n -> 1..Len(population)]}

sample(population, n) ==
    {[j \in 1..n |-> population[s[j]]] : s \in SampleOrders(Len(population), n)}

\* dest_path within the kit directory: f"{i:02d}_{filename}"
NewFilename(idx, source_file) ==
    Format02d(idx) \o <<"_">> \o Basename(source_file)

NoPlace == [index |-> 0, found |-> "none", env |-> FALSE, ok |-> FALSE]

\* what lies at the destination before the placement: "none" or the entry's kind
Found(d, name) ==
    IF Lookup(d, name) = {} THEN "none" ELSE (CHOOSE e \in Lookup(d, name) : TRUE).kind

\* os.symlink(source_file, dest_path): FileExistsError when anything is there
SymlinkOk(d, name, env) == ~env /\ Lookup(d, name) = {}

\* shutil.copy2(source_file, dest_path): an existing destination is overwritten;
\* SameFileError when the destination is a link to the source itself
CopyOk(d, name, source_file, env) ==
    ~env /\ Link(name, source_file) \notin d.entries

\* the kit directories a placement can leave behind
PlaceOutcomes(d, name, source_file, symlinks, env) ==
    IF symlinks
    THEN IF SymlinkOk(d, name, env)
         THEN {WithEntry(d, Link(name, source_file))}
         ELSE {d}
    ELSE IF Found(d, name) = "link"
         \* written through the link (or refused): the entry stays the link
         THEN {d}
         ELSE IF CopyOk(d, name, source_file, env)
              THEN {WithEntry(d, File(name, "file"))}
              \* the copy failed before or after the destination was opened
              ELSE {d, WithEntry(d, File(name, "partial"))}

PlaceOk(d, name, source_file, symlinks, env) ==
    IF symlinks THEN SymlinkOk(d, name, env) ELSE CopyOk(d, name, source_file, env)

KitLocals == <<kit_dir, selected_files, i, attempts, placed, last_place>>

\* variant of NoFiles: the empty check left out
NoFiles_unchecked(files) == FALSE

\* line 42: if not audio_files
NoFiles(files) == files = <<>>

\* variant of AfterSample: the drawn files taken out of the list
AfterSample_removing(population, drawn) ==
    SelectSeq(population, LAMBDA f : \A j \in 1..Len(drawn) : drawn[j] # f)

\* random.sample returns a new list and leaves the population as it is
AfterSample(population, drawn) == population

\* lines 42-63: the empty check, the timestamp, makedirs, the draw and the entry
\* into the placement loop (left at once, with success, when nothing was drawn)
create_drum_kit_enter ==
    /\ pc = "call"
    /\ calls < MaxCalls
    /\ calls' = calls + 1
    /\ IF NoFiles(audio_files)
       THEN /\ result' = FALSE
            /\ run_results' = Append(run_results, FALSE)
            /\ pc' = "ret"
            /\ UNCHANGED <<fs, run_dirs, audio_files, KitLocals>>
       ELSE /\ kit_dir' = now
            /\ fs' = makedirs(fs, now)
            /\ selected_files' \in
                   sample(audio_files, Min(Len(audio_files), max_files))
            /\ audio_files' = AfterSample(audio_files, selected_files')
            /\ i' = 1
            /\ attempts' = <<>>
            /\ placed' = <<>>
            /\ last_place' = NoPlace
            /\ run_dirs' = Append(run_dirs, now)
            /\ IF selected_files' = <<>>
               THEN /\ result' = TRUE
                    /\ run_results' = Append(run_results, TRUE)
                    /\ pc' = "ret"
               ELSE /\ pc' = "place"
                    /\ UNCHANGED <<result, run_results>>
    /\ UNCHANGED <<library, now, caller, extensions, max_files, use_symlinks,
                   num_kits, kit_num, successful_kits>>

\* variant of LoopStep: a failure is reported and the loop goes on (continue
\* in place of return False)
LoopStep_continuing(ok, idx, n) ==
    IF idx = n THEN [pc |-> "ret", i |-> idx, returns |-> IF ok THEN "True" ELSE "False"]
    ELSE [pc |-> "place", i |-> idx + 1, returns |-> "nothing"]

\* variant of LoopStep: a failed file is tried again
LoopStep_retrying(ok, idx, n) ==
    IF ~ok THEN [pc |-> "place", i |-> idx, returns |-> "nothing"]
    ELSE IF idx = n THEN [pc |-> "ret", i |-> idx, returns |-> "True"]
    ELSE [pc |-> "place", i |-> idx + 1, returns |-> "nothing"]

\* where an iteration of the placement loop leads: line 78 returns False at the
\* first failure, line 82 returns True after the last file, and otherwise the
\* loop goes on with the next index
LoopStep(ok, idx, n) ==
    IF ~ok THEN [pc |-> "ret", i |-> idx, returns |-> "False"]
    ELSE IF idx = n THEN [pc |-> "ret", i |-> idx, returns |-> "True"]
    ELSE [pc |-> "place", i |-> idx + 1, returns |-> "nothing"]

\* lines 63-82: one iteration of the placement loop, and the return it leads to
create_drum_kit_place ==
    /\ pc = "place"
    /\ LET source_file == selected_files[i]
           new_filename == NewFilename(i, source_file)
           d == fs[kit_dir]
       IN  \E env \in BOOLEAN :
             LET ok == PlaceOk(d, new_filename, source_file, use_symlinks, env)
                 step == LoopStep(ok, i, Len(selected_files))
             IN  /\ \E d2 \in PlaceOutcomes(d, new_filename, source_file,
                                            use_symlinks, env) :
                       fs' = [fs EXCEPT ![kit_dir] = d2]
                 /\ attempts' = Append(attempts, i)
                 /\ last_place' = [index |-> i, found |-> Found(d, new_filename),
                                   env |-> env, ok |-> ok]
                 /\ placed' = IF ok THEN Append(placed, new_filename) ELSE placed
                 /\ pc' = step.pc
                 /\ i' = step.i
                 /\ IF step.returns = "nothing"
                    THEN UNCHANGED <<result, run_results>>
                    ELSE /\ result' = (step.returns = "True")
                         /\ run_results' = Append(run_results, result')
    /\ UNCHANGED <<library, now, caller, extensions, max_files, use_symlinks,
                   num_kits, audio_files, kit_num, successful_kits, kit_dir,
                   selected_files, calls, run_dirs>>

----------------------------------------------------------------------------
(* main, and create_drum_kit called on its own *)

NoKit == -1

\* the variables of the program and the histories of a run, as they are before
\* the program starts
Cleared ==
    /\ caller' = "main"
    /\ extensions' = <<>>
    /\ max_files' = 1
    /\ use_symlinks' = FALSE
    /\ num_kits' = 1
    /\ audio_files' = <<>>
    /\ kit_num' = 0
    /\ successful_kits' = 0
    /\ kit_dir' = NoKit
    /\ selected_files' = <<>>
    /\ i' = 0
    /\ result' = FALSE
    /\ attempts' = <<>>
    /\ placed' = <<>>
    /\ last_place' = NoPlace
    /\ run_dirs' = <<>>
    /\ run_results' = <<>>

\* lines 85-183: the answers to the prompts, the discovery, and the return when
\* nothing was found; num_kits is asked for only when something was
main_discover ==
    /\ pc = "idle"
    /\ calls < MaxCalls
    /\ caller' = "main"
    /\ \E exts \in ExtInputs, k \in FilesPerKit, mode \in BOOLEAN :
         /\ extensions' = exts
         /\ max_files' = k
         /\ use_symlinks' = mode
         /\ audio_files' = get_audio_files(library, exts)
    /\ IF audio_files' = <<>>
       THEN /\ pc' = "done"
            /\ UNCHANGED num_kits
       ELSE /\ pc' = "call"
            /\ num_kits' \in 1..MaxKits
    /\ kit_num' = 0
    /\ successful_kits' = 0
    /\ UNCHANGED <<library, now, fs, calls, KitLocals, result, run_dirs,
                   run_results>>

\* variant of CallReturned: main goes on while the kit is still being placed
CallReturned_early == pc \in {"ret", "place"}

\* main goes on only when its call of create_drum_kit has returned
CallReturned == pc = "ret"

\* variant of MoreKits: the loop is left at the first kit that fails
MoreKits_stopping == result /\ kit_num < num_kits - 1

\* lines 187 and 192: another kit follows this one
MoreKits == kit_num < num_kits - 1

\* variant of Slept: no pause between kits
Slept_not(t) == t

\* line 194, time.sleep(1): the clock after the pause
Slept(t) == t + 1

\* lines 187-194: the rest of one iteration of the kit loop, after the call
main_loop ==
    /\ CallReturned
    /\ caller = "main"
    /\ successful_kits' = IF result THEN successful_kits + 1 ELSE successful_kits
    /\ IF MoreKits
       THEN /\ now < MaxClock
            /\ now' = Slept(now)
            /\ kit_num' = kit_num + 1
            /\ pc' = "call"
       ELSE /\ pc' = "done"
            /\ UNCHANGED <<now, kit_num>>
    /\ UNCHANGED <<library, fs, caller, extensions, max_files, use_symlinks,
                   num_kits, audio_files, KitLocals, result, calls, run_dirs,
                   run_results>>

\* lines 196-198 (or 169): main returns and the program ends
main_exit ==
    /\ pc = "done"
    /\ pc' = "idle"
    /\ Cleared
    /\ UNCHANGED <<library, now, fs, calls>>

\* the lists create_drum_kit is handed when it is called on its own: none, or
\* the library's .w files
DirectLists == {<<>>, get_audio_files(library, <<<<"w">>>>)}

\* create_drum_kit(audio_files, output_dir, max_files, use_symlinks) called by
\* an importer of the module
direct_call ==
    /\ pc = "idle"
    /\ calls < MaxCalls
    /\ caller' = "direct"
    /\ audio_files' \in DirectLists
    /\ max_files' \in FilesPerKit
    /\ use_symlinks' \in BOOLEAN
    /\ pc' = "call"
    /\ UNCHANGED <<library, now, fs, extensions, num_kits, kit_num,
                   successful_kits, KitLocals, result, calls, run_dirs,
                   run_results>>

direct_return ==
    /\ pc = "ret"
    /\ caller = "direct"
    /\ pc' = "idle"
    /\ Cleared
    /\ UNCHANGED <<library, now, fs, calls>>

\* a second passes on the wall clock.  The program reads the clock only at
\* line 47, so the seconds that pass are taken when it is about to read it
Tick ==
    /\ pc = "call"
    /\ now < MaxClock
    /\ now' = now + 1
    /\ UNCHANGED <<library, fs, pc, caller, extensions, max_files,
                   use_symlinks, num_kits, audio_files, kit_num,
                   successful_kits, KitLocals, result, calls, run_dirs,
                   run_results>>

----------------------------------------------------------------------------
(* Specifications *)

InitRest ==
    /\ now = 0
    /\ fs = [t \in 0..MaxClock |-> NoDir]
    /\ pc = "idle"
    /\ caller = "main"
    /\ extensions = <<>>
    /\ max_files = 1
    /\ use_symlinks = FALSE
    /\ num_kits = 1
    /\ audio_files = <<>>
    /\ kit_num = 0
    /\ successful_kits = 0
    /\ kit_dir = NoKit
    /\ selected_files = <<>>
    /\ i = 0
    /\ result = FALSE
    /\ run_dirs = <<>>
    /\ run_results = <<>>
    /\ attempts = <<>>
    /\ placed = <<>>
    /\ last_place = NoPlace

Init ==
    /\ library = SmallLibrary
    /\ calls = 0
    /\ InitRest

Next ==
    \/ main_discover
    \/ create_drum_kit_enter
    \/ create_drum_kit_place
    \/ main_loop
    \/ main_exit
    \/ direct_call
    \/ direct_return
    \/ Tick

Spec == Init /\ [][Next]_vars

\* one call of create_drum_kit over a library of WideCount files
InitWide ==
    /\ library = WideLibrary
    /\ calls = MaxCalls - 1
    /\ InitRest

SpecWide == InitWide /\ [][Next]_vars

----------------------------------------------------------------------------
(* get_audio_files on its own, over every tree of a small universe *)

RootNames == <<kw, <<"k", ".", "M">>, <<"k">>, <<".", "w">>>>

ANames == <<kw, <<"k", ".">>>>

BNames == <<<<"s", ".", "W">>, <<"k", ".", "w", ".", "m">>>>

Keep(names, S) == SelectSeq(names, LAMBDA n : n \in S)

\* the trees with root/, a/ and a/b/, each holding some of its candidate files
DiscoveryTrees ==
    {Dir(Keep(RootNames, R),
         <<Sub("a", Dir(Keep(ANames, A), <<Sub("b", Dir(Keep(BNames, B), <<>>))>>))>>) :
        R \in SUBSET {RootNames[j] : j \in 1..Len(RootNames)},
        A \in SUBSET {ANames[j] : j \in 1..Len(ANames)},
        B \in SUBSET {BNames[j] : j \in 1..Len(BNames)}}

DiscoveryExts ==
    {<<<<"w">>>>, <<<<".", "W">>>>, <<<<"m">>, <<"W">>>>, <<<<"w", ".">>>>,
     <<<<".">>>>, <<<<"x">>>>, <<>>}

\* get_audio_files(input_dir, extensions) called by an importer of the module
discover ==
    /\ pc = "idle"
    /\ audio_files' = get_audio_files(library, extensions)
    /\ pc' = "found"
    /\ UNCHANGED <<library, now, fs, caller, extensions, max_files,
                   use_symlinks, num_kits, kit_num, successful_kits, KitLocals,
                   result, calls, run_dirs, run_results>>

InitDiscovery ==
    /\ library \in DiscoveryTrees
    /\ calls = 0
    /\ now = 0
    /\ fs = [t \in 0..MaxClock |-> NoDir]
    /\ pc = "idle"
    /\ caller = "direct"
    /\ extensions \in DiscoveryExts
    /\ max_files = 1
    /\ use_symlinks = FALSE
    /\ num_kits = 1
    /\ audio_files = <<>>
    /\ kit_num = 0
    /\ successful_kits = 0
    /\ kit_dir = NoKit
    /\ selected_files = <<>>
    /\ i = 0
    /\ result = FALSE
    /\ run_dirs = <<>>
    /\ run_results = <<>>
    /\ attempts = <<>>
    /\ placed = <<>>
    /\ last_place = NoPlace

NextDiscovery == discover

SpecDiscovery == InitDiscovery /\ [][NextDiscovery]_vars

----------------------------------------------------------------------------
(* Properties *)

Range(s) == {s[j] : j \in DOMAIN s}

Upto(n) == [j \in 1..n |-> j]

\* a kit has been begun: a draw was made and a kit directory named
Drawn == kit_dir # NoKit

IsDigit(c) == \E d \in 1..10 : DigitChars[d] = c

DigitValue(c) == (CHOOSE d \in 1..10 : DigitChars[d] = c) - 1

RECURSIVE NumberOf(_)
NumberOf(s) ==
    IF s = <<>> THEN 0
    ELSE 10 * NumberOf(SubSeq(s, 1, Len(s) - 1)) + DigitValue(s[Len(s)])

RECURSIVE NumDigits(_)
NumDigits(n) == IF n < 10 THEN 1 ELSE 1 + NumDigits(n \div 10)

\* name is w digits that read idx, an underscore, and base
Numbered(name, w, idx, base) ==
    /\ Len(name) = w + 1 + Len(base)
    /\ \A j \in 1..w : IsDigit(name[j])
    /\ NumberOf(SubSeq(name, 1, w)) = idx
    /\ name[w + 1] = "_"
    /\ SubSeq(name, w + 2, Len(name)) = base

TrueCount(s) == Cardinality({j \in DOMAIN s : s[j]})

\* C1: the selection of a kit has exactly min(len(F), k) entries, each a member
\* of the discovered list F, and none of them twice
C1_Selection ==
    Drawn =>
      /\ Len(selected_files) = Min(Len(audio_files), max_files)
      /\ Range(selected_files) \subseteq Range(audio_files)
      /\ Cardinality(Range(selected_files)) = Len(selected_files)

\* a kit asked for more files than were discovered is complete with all of them
C1_Witness ==
    /\ pc = "ret" /\ result /\ Drawn
    /\ max_files > Len(audio_files)
    /\ Len(selected_files) = 2
    /\ Len(placed) = 2

AtLeastTwoDigits(j) == IF NumDigits(j) < 2 THEN 2 ELSE NumDigits(j)

\* the entries placed so far lie in the kit directory and the j-th of them is
\* named after the j-th drawn file with a prefix reading j, of exactly two
\* digits (exact) or of two digits or more
PlacedNumbered(exact) ==
    /\ Len(placed) <= Len(selected_files)
    /\ \A j \in 1..Len(placed) :
         /\ Numbered(placed[j], IF exact THEN 2 ELSE AtLeastTwoDigits(j), j,
                     Basename(selected_files[j]))
         /\ Lookup(fs[kit_dir], placed[j]) # {}
    /\ (pc = "ret" /\ result) => Len(placed) = Len(selected_files)

\* C2 as stated: whatever the number of selected files, every placed entry is
\* named by exactly two digits, an underscore and the original basename, and the
\* prefixes are exactly 01..len(selected), the i-th drawn file carrying i
C2_TwoDigitNames == Drawn => PlacedNumbered(TRUE)

\* C2 as amended: every placed entry is named by the decimal digits of its index
\* i, zero-padded to two digits (two digits up to 99, the digits of i from 100
\* on), an underscore and the original basename; the prefixes read exactly
\* 1..len(selected), the i-th drawn file carrying i
C2_PaddedNames == Drawn => PlacedNumbered(FALSE)

\* a kit of at least 100 files is complete
C2_Witness == pc = "ret" /\ result /\ Len(placed) >= 100

\* C3: with an empty file list create_drum_kit returns False and changes nothing
\* in the output folder, and a run of main that discovers nothing ends without
\* any kit
C3_NoFilesNoKit ==
    /\ []((pc = "ret" /\ audio_files = <<>>) => (~result /\ ~Drawn))
    /\ []((pc = "done" /\ audio_files = <<>>) =>
            (run_dirs = <<>> /\ run_results = <<>>))
    /\ [][(pc = "call" /\ audio_files = <<>>) =>
            (fs' = fs /\ pc' \in {"call", "ret"})]_vars
    /\ [][(pc = "idle" /\ pc' = "done") => fs' = fs]_vars

\* create_drum_kit has returned from a call with an empty list
C3_Witness ==
    pc = "ret" /\ caller = "direct" /\ audio_files = <<>> /\ calls > 0

\* the kit has failed at file i: files 1..i were attempted, each once and in
\* order, nothing after i, and the entries of files 1..i-1 lie in the directory
FailedAt ==
    /\ ~result
    /\ i \in 1..Len(selected_files)
    /\ attempts = Upto(i)
    /\ last_place.index = i
    /\ ~last_place.ok
    /\ Len(placed) = i - 1
    /\ \A j \in 1..Len(placed) : Lookup(fs[kit_dir], placed[j]) # {}

\* the step that fails leaves the entries placed before it as they were, and
\* nothing is written between the failure and the return to the caller
NoRollback ==
    /\ [][(pc = "place" /\ pc' = "ret" /\ ~result') =>
            \A j \in 1..Len(placed) :
               Lookup(fs'[kit_dir], placed[j]) = Lookup(fs[kit_dir], placed[j])]_vars
    /\ [][pc = "ret" => fs' = fs]_vars

\* a failed placement ends the kit: once a placement has failed the loop is
\* left, and the kit stays as the failure found it
FailureEndsKit ==
    (Drawn /\ last_place.index > 0 /\ ~last_place.ok) => (pc # "place" /\ FailedAt)

\* C4 as stated: a failed placement ends the kit with failure, nothing placed
\* after it and nothing rolled back, and a name collision at the destination
\* is such a failure in copy mode as well as in symlink mode
C4_CollisionFailsInBothModes ==
    /\ FailureEndsKit
    /\ (Drawn /\ last_place.found # "none") => ~last_place.ok

\* C4 as amended: a failed placement ends the kit with failure, nothing placed
\* after it and nothing rolled back; a name collision is such a failure in
\* symlink mode, while in copy mode an existing file at the destination is
\* overwritten and the placement succeeds
C4_AbortOnFailure ==
    /\ [](FailureEndsKit)
    /\ []((Drawn /\ use_symlinks /\ last_place.found # "none") => ~last_place.ok)
    /\ []((Drawn /\ ~use_symlinks /\ last_place.found \in {"file", "partial"}
           /\ ~last_place.env) => last_place.ok)
    /\ NoRollback

\* a kit of two files has failed at its second file, which met an entry of
\* the same name, the first file's entry being in place
C4_Witness ==
    /\ pc = "ret" /\ ~result /\ Drawn
    /\ i = 2
    /\ Len(placed) = 1
    /\ last_place.found # "none"

CurrentDir(dirs) == dirs[Len(dirs)]

\* a step writes to no directory but that of the kit begun last
WritesCurrentKitOnly ==
    \A t \in DOMAIN fs :
       fs'[t] # fs[t] => (run_dirs' # <<>> /\ t = CurrentDir(run_dirs') /\ t = kit_dir')

\* C6: the kits of one run, made with the pause of main between them, lie in
\* distinct directories with distinct timestamps, and a later kit writes
\* nothing into the directory of an earlier one
C6_DistinctKitDirs ==
    /\ [](\A a, b \in 1..Len(run_dirs) : a < b => run_dirs[a] < run_dirs[b])
    /\ [](\A t \in Range(run_dirs) : fs[t].exists)
    /\ [][WritesCurrentKitOnly]_vars

\* a run has made two kits
C6_Witness ==
    /\ caller = "main" /\ pc = "done"
    /\ Len(run_dirs) = 2
    /\ run_dirs[1] # run_dirs[2]

\* the kit begun last has been left: every file placed, or failed at a file
KitTerminal ==
    \/ result /\ Len(placed) = Len(selected_files) /\ attempts = Upto(Len(placed))
    \/ FailedAt

\* C7: a kit's directory is created and its timestamp taken only when the kit
\* before it is complete or has failed, and no step places a file for any kit
\* but the one begun last
C7_Sequential ==
    /\ [](caller = "main" => Len(run_dirs) - Len(run_results) \in {0, 1})
    /\ [][(caller = "main" /\ Len(run_dirs') = Len(run_dirs) + 1) =>
            /\ Len(run_results) = Len(run_dirs)
            /\ run_dirs # <<>> => KitTerminal]_vars
    /\ [][(caller = "main" /\ fs' # fs) =>
            /\ Len(run_dirs') = Len(run_results) + 1
            /\ \A t \in DOMAIN fs : fs'[t] # fs[t] => t = CurrentDir(run_dirs')]_vars

\* the second kit of a run is being placed
C7_Witness ==
    /\ caller = "main" /\ pc = "place"
    /\ Len(run_dirs) = 2
    /\ Len(run_results) = 1
    /\ attempts # <<>>

\* every file at any depth of a tree, as [dir, name]; trees here are at most
\* three directories deep
FilesOf(tree) ==
    {Path(<<>>, tree.files[j]) : j \in 1..Len(tree.files)}
    \cup UNION {
          {Path(<<tree.dirs[a].name>>, tree.dirs[a].node.files[j]) :
              j \in 1..Len(tree.dirs[a].node.files)}
          \cup UNION {
                {Path(<<tree.dirs[a].name, tree.dirs[a].node.dirs[b].name>>,
                      tree.dirs[a].node.dirs[b].node.files[j]) :
                    j \in 1..Len(tree.dirs[a].node.dirs[b].node.files)} :
                b \in 1..Len(tree.dirs[a].node.dirs)} :
          a \in 1..Len(tree.dirs)}

\* a file's extension with the leading dot removed and the case folded
FoldedExt(name) ==
    IF SplitExt(name) = <<>> THEN <<>> ELSE Lower(Tail(SplitExt(name)))

C10_ListUnchanged ==
    /\ [][(pc \in {"call", "place"}) => audio_files' = audio_files]_vars
    /\ []((caller = "main" /\ pc \in {"call", "place", "ret"}) =>
            audio_files = get_audio_files(library, extensions))
    /\ []((Drawn /\ pc \in {"place", "ret"}) =>
            Len(selected_files) = Min(Len(audio_files), max_files))

\* the second kit of a run draws both files although the first kit, in
\* another directory, holds a link to each of them
C10_Witness ==
    /\ caller = "main" /\ pc = "place"
    /\ Len(run_dirs) = 2
    /\ run_dirs[1] # run_dirs[2]
    /\ Len(selected_files) = 2
    /\ \A f \in Range(selected_files) :
          \E e \in fs[run_dirs[1]].entries : e.kind = "link" /\ e.target = f

====
